---- MODULE Spec2Model ----
(***************************************************************************)
(* A model of the DEM option builders (SlopeOptions, TriOptions), of the   *)
(* string list they compile to, and of the once-only driver registration   *)
(* of the gdal bindings.                                                   *)
(*                                                                         *)
(* A token is a sequence of one-character strings, so that rendering and   *)
(* parsing work on characters.  Option<T> is a sequence of length at most  *)
(* one: <<>> is None and <<x>> is Some(x).                                 *)
(***************************************************************************)
EXTENDS Integers, Sequences, FiniteSets, TLC

VARIABLES
    \* the option builders
    obj,                 \* which configuration object the caller built
    major_is_3,          \* build flag cfg(major_is_3)
    minor_ge_3,          \* build flag cfg(minor_ge_3)
    slope,               \* the SlopeOptions value
    tri,                 \* the TriOptions value
    given,               \* the last band the caller passed, and the last argument of each slope mutator
    last,                \* the last call and what it returned
    \* the argument list on its own
    list,                \* a list built by append and merge
    other,               \* a second list, merged into the first
    rt,                  \* the last append / round trip and its outcome
    \* driver registration
    pc,                  \* where each thread is inside register_drivers
    LOCK,                \* the thread holding the mutex, 0 when free
    registered_drivers,  \* the static flag
    nRegister,           \* calls of GDALAllRegister begun
    nRegistered,         \* calls of GDALAllRegister completed
    calls                \* calls of register_drivers each thread has returned from

optVars == <<obj, major_is_3, minor_ge_3, slope, tri, given, last>>
argVars == <<list, other, rt>>
regVars == <<pc, LOCK, registered_drivers, nRegister, nRegistered, calls>>
vars == <<obj, major_is_3, minor_ge_3, slope, tri, given, last,
          list, other, rt,
          pc, LOCK, registered_drivers, nRegister, nRegistered, calls>>

----------------------------------------------------------------------------
\* Bounds of the model.

\* Largest band number a caller passes.
MaxBand == 2
\* How many times in a row to_options_list is called.
MaxCompiles == 2
\* Longest token appended to the free-standing argument list.
MaxTokLen == 2
\* Longest free-standing argument list.
MaxListLen == 2
\* Threads calling register_drivers.
NThreads == 3
\* Calls of register_drivers per thread.
MaxCalls == 2

----------------------------------------------------------------------------
\* Values.

None == <<>>
Some(x) == <<x>>

Ok(v) == [ok |-> TRUE, val |-> v, err |-> ""]
Err(e) == [ok |-> FALSE, val |-> <<>>, err |-> e]

QUOTE == "\""
SPACE == " "

TokComputeEdges == <<"-", "c", "o", "m", "p", "u", "t", "e", "_", "e", "d", "g", "e", "s">>
TokB == <<"-", "b">>
TokOf == <<"-", "o", "f">>
TokAlg == <<"-", "a", "l", "g">>
TokS == <<"-", "s">>
TokP == <<"-", "p">>
StrGTiff == <<"G", "T", "i", "f", "f">>
StrBadFormat == <<"G", QUOTE>>
StrCplDebug == <<"C", "P", "L", "_", "D", "E", "B", "U", "G", "=", "O", "N">>
StrAlgHorn == <<"-", "a", "l", "g", " ", "H", "o", "r", "n">>
StrEdgesP == TokComputeEdges \o <<SPACE>> \o TokP
StrHorn == <<"H", "o", "r", "n">>
StrZevenbergenThorne == <<"Z", "e", "v", "e", "n", "b", "e", "r", "g", "e", "n", "T", "h", "o", "r", "n", "e">>
StrWilson == <<"W", "i", "l", "s", "o", "n">>
StrRiley == <<"R", "i", "l", "e", "y">>

\* The string the slope test expects, and the one the TRI test expects.
ExpectedSlope == <<"-", "c", "o", "m", "p", "u", "t", "e", "_", "e", "d", "g", "e", "s", " ", "-", "b", " ", "2", " ", "-", "o", "f", " ", "G", "T", "i", "f", "f", " ", "C", "P", "L", "_", "D", "E", "B", "U", "G", "=", "O", "N", " ", "-", "a", "l", "g", " ", "Z", "e", "v", "e", "n", "b", "e", "r", "g", "e", "n", "T", "h", "o", "r", "n", "e", " ", "-", "s", " ", "9", "8", "4", "7", "3", " ", "-", "p">>
ExpectedTri == <<"-", "c", "o", "m", "p", "u", "t", "e", "_", "e", "d", "g", "e", "s", " ", "-", "b", " ", "2", " ", "-", "o", "f", " ", "G", "T", "i", "f", "f", " ", "C", "P", "L", "_", "D", "E", "B", "U", "G", "=", "O", "N", " ", "-", "a", "l", "g", " ", "W", "i", "l", "s", "o", "n">>

----------------------------------------------------------------------------
\* Number formatting.

Digit(d) == CASE d = 0 -> "0" [] d = 1 -> "1" [] d = 2 -> "2" [] d = 3 -> "3"
              [] d = 4 -> "4" [] d = 5 -> "5" [] d = 6 -> "6" [] d = 7 -> "7"
              [] d = 8 -> "8" [] d = 9 -> "9"

\* usize::to_string: the decimal digits of n >= 0, most significant first.
RECURSIVE DecStr(_)
DecStr(n) == IF n < 10 THEN <<Digit(n)>> ELSE DecStr(n \div 10) \o <<Digit(n % 10)>>

Abs(n) == IF n < 0 THEN -n ELSE n

\* f64::to_string of the value t/10 (a scale is held in tenths): a sign, the
\* integer digits, and the fraction only when there is one.
f64_to_string(t) ==
    (IF t < 0 THEN <<"-">> ELSE <<>>)
    \o DecStr(Abs(t) \div 10)
    \o (IF Abs(t) % 10 = 0 THEN <<>> ELSE <<".", Digit(Abs(t) % 10)>>)

----------------------------------------------------------------------------
\* The argument list (CslStringList).

IsSpace(c) == c = SPACE

HasSpace(tok) == \E i \in 1..Len(tok) : IsSpace(tok[i])

\* A token append can represent: one that embeds no quote character.
Encodable(tok) == \A i \in 1..Len(tok) : tok[i] # QUOTE

\* append: r is the list so far, or the error that already ended the call.
add_string(r, tok) ==
    IF ~r.ok THEN r
    ELSE IF Encodable(tok) THEN Ok(Append(r.val, tok))
    ELSE Err("EncodingError")

\* merge: every token of l, in order.
extend(r, l) == IF ~r.ok THEN r ELSE Ok(r.val \o l)

RenderToken(tok) == IF HasSpace(tok) THEN <<QUOTE>> \o tok \o <<QUOTE>> ELSE tok

\* render: the tokens joined by single spaces, a token holding whitespace quoted.
RECURSIVE Render(_)
Render(l) ==
    IF l = <<>> THEN <<>>
    ELSE IF Len(l) = 1 THEN RenderToken(l[1])
    ELSE RenderToken(l[1]) \o <<SPACE>> \o Render(Tail(l))

\* parse: whitespace separates tokens, a double-quoted segment belongs to one
\* token, an unterminated quote is an error.  mode is "gap" between tokens,
\* "tok" inside one, "quote" inside a quoted segment.
RECURSIVE ParseFrom(_, _, _, _, _)
ParseFrom(src, i, toks, cur, mode) ==
    IF i > Len(src)
    THEN IF mode = "quote" THEN Err("ParseError")
         ELSE IF mode = "tok" THEN Ok(Append(toks, cur))
         ELSE Ok(toks)
    ELSE LET c == src[i] IN
         IF mode = "quote"
         THEN IF c = QUOTE
              THEN ParseFrom(src, i + 1, toks, cur, "tok")
              ELSE ParseFrom(src, i + 1, toks, Append(cur, c), "quote")
         ELSE IF c = QUOTE
              THEN ParseFrom(src, i + 1, toks, cur, "quote")
         ELSE IF IsSpace(c)
              THEN IF mode = "tok"
                   THEN ParseFrom(src, i + 1, Append(toks, cur), <<>>, "gap")
                   ELSE ParseFrom(src, i + 1, toks, <<>>, "gap")
         ELSE ParseFrom(src, i + 1, toks, Append(cur, c), "tok")

Parse(src) == ParseFrom(src, 1, <<>>, <<>>, "gap")

----------------------------------------------------------------------------
\* The configuration types.

\* Default::default() of SlopeOptions.
SlopeOptions_new ==
    [input_band |-> None, compute_edges |-> FALSE, output_format |-> None,
     additional_options |-> <<>>, algorithm |-> None, scale |-> None,
     percentage_results |-> None]

\* Default::default() of TriOptions.
TriOptions_new ==
    [input_band |-> None, compute_edges |-> FALSE, output_format |-> None,
     additional_options |-> <<>>, algorithm |-> None]

\* cfg(all(major_is_3, minor_ge_3))
Gate(major, minor) == major /\ minor

\* The variants of DemSlopeAlg, and those of DemTriAlg the build has.
DemSlopeAlg == {"Horn", "ZevenbergenThorne"}
DemTriAlg(gate) == IF gate THEN {"Wilson", "Riley"} ELSE {"Wilson"}

DemSlopeAlg_to_gdal_option(a) ==
    CASE a = "Horn" -> StrHorn
      [] a = "ZevenbergenThorne" -> StrZevenbergenThorne

DemTriAlg_to_gdal_option(a) ==
    CASE a = "Wilson" -> StrWilson
      [] a = "Riley" -> StrRiley

\* What a caller passes.
BandInputs == 0..MaxBand
FormatValues == {StrGTiff, StrBadFormat}
AdditionalSources == {<<>>, StrCplDebug, StrEdgesP, StrAlgHorn}
ScaleValues == {984730, 5}

\* The conversion without its zero check.
NonZeroUsize_try_from_unchecked(n) == Some(n)

\* usize -> NonZeroUsize (try_into): Some(n) for a positive n, else the
\* conversion's error.
NonZeroUsize_try_from(n) == IF n > 0 THEN Some(n) ELSE None

\* common_dem_options!(): the mutators every configuration type shares.
with_input_band(self, band) == [self EXCEPT !.input_band = Some(band)]
with_compute_edges(self, state) == [self EXCEPT !.compute_edges = state]
with_output_format(self, format) == [self EXCEPT !.output_format = Some(format)]
with_additional_options(self, opts) == [self EXCEPT !.additional_options = opts]

\* common_dem_options!(): the common fields, in their fixed order.
store_common_options_to(self, opts) ==
    LET r1 == IF self.compute_edges THEN add_string(opts, TokComputeEdges) ELSE opts
        r2 == IF self.input_band # None
              THEN add_string(add_string(r1, TokB), DecStr(self.input_band[1]))
              ELSE r1
        r3 == IF self.output_format # None
              THEN add_string(add_string(r2, TokOf), self.output_format[1])
              ELSE r2
    IN  extend(r3, self.additional_options)

SlopeOptions_with_algorithm(self, algorithm) ==
    [self EXCEPT !.algorithm = Some(algorithm)]

\* with_scale that also resets the percentage switch.
SlopeOptions_with_scale_resetting(self, scale) ==
    [self EXCEPT !.scale = Some(scale), !.percentage_results = None]

SlopeOptions_with_scale(self, scale) ==
    [self EXCEPT !.scale = Some(scale)]

\* with_percentage_results that can switch the flag on but never off again.
SlopeOptions_with_percentage_results_sticky(self, state) ==
    [self EXCEPT !.percentage_results =
        Some(state \/ self.percentage_results = Some(TRUE))]

SlopeOptions_with_percentage_results(self, state) ==
    [self EXCEPT !.percentage_results = Some(state)]

\* to_options_list that moves the additional options out of the configuration.
SlopeOptions_after_to_options_list_taking(self) ==
    [self EXCEPT !.additional_options = <<>>]

\* What to_options_list leaves of the configuration: it takes &self.
SlopeOptions_after_to_options_list(self) == self

\* to_options_list with the scale block ahead of the algorithm block.
SlopeOptions_to_options_list_scale_first(self) ==
    LET c  == store_common_options_to(self, Ok(<<>>))
        r1 == IF self.scale # None
              THEN add_string(add_string(c, TokS), f64_to_string(self.scale[1]))
              ELSE c
        r2 == IF self.algorithm # None
              THEN add_string(add_string(r1, TokAlg),
                              DemSlopeAlg_to_gdal_option(self.algorithm[1]))
              ELSE r1
    IN  IF self.percentage_results = Some(TRUE) THEN add_string(r2, TokP) ELSE r2

\* to_options_list that stores the common options last.
SlopeOptions_to_options_list_common_last(self) ==
    LET r1 == IF self.algorithm # None
              THEN add_string(add_string(Ok(<<>>), TokAlg),
                              DemSlopeAlg_to_gdal_option(self.algorithm[1]))
              ELSE Ok(<<>>)
        r2 == IF self.scale # None
              THEN add_string(add_string(r1, TokS), f64_to_string(self.scale[1]))
              ELSE r1
        r3 == IF self.percentage_results = Some(TRUE) THEN add_string(r2, TokP) ELSE r2
    IN  store_common_options_to(self, r3)

\* to_options_list that tests percentage_results.is_some().
SlopeOptions_to_options_list_p_if_some(self) ==
    LET c  == store_common_options_to(self, Ok(<<>>))
        r1 == IF self.algorithm # None
              THEN add_string(add_string(c, TokAlg),
                              DemSlopeAlg_to_gdal_option(self.algorithm[1]))
              ELSE c
        r2 == IF self.scale # None
              THEN add_string(add_string(r1, TokS), f64_to_string(self.scale[1]))
              ELSE r1
    IN  IF self.percentage_results # None THEN add_string(r2, TokP) ELSE r2

SlopeOptions_to_options_list(self) ==
    LET c  == store_common_options_to(self, Ok(<<>>))
        r1 == IF self.algorithm # None
              THEN add_string(add_string(c, TokAlg),
                              DemSlopeAlg_to_gdal_option(self.algorithm[1]))
              ELSE c
        r2 == IF self.scale # None
              THEN add_string(add_string(r1, TokS), f64_to_string(self.scale[1]))
              ELSE r1
    IN  IF self.percentage_results = Some(TRUE) THEN add_string(r2, TokP) ELSE r2

TriOptions_with_algorithm(self, algorithm) ==
    [self EXCEPT !.algorithm = Some(algorithm)]

TriOptions_after_to_options_list(self) == self

\* to_options_list without the cfg attribute on its -alg block.
TriOptions_to_options_list_ungated(self, gate) ==
    LET c == store_common_options_to(self, Ok(<<>>))
    IN  IF self.algorithm # None
        THEN add_string(add_string(c, TokAlg),
                        DemTriAlg_to_gdal_option(self.algorithm[1]))
        ELSE c

\* gate is cfg(all(major_is_3, minor_ge_3)): the -alg block is compiled in
\* only when it is set.
TriOptions_to_options_list(self, gate) ==
    LET c == store_common_options_to(self, Ok(<<>>))
    IN  IF gate /\ self.algorithm # None
        THEN add_string(add_string(c, TokAlg),
                        DemTriAlg_to_gdal_option(self.algorithm[1]))
        ELSE c

----------------------------------------------------------------------------
\* The calls a program makes on one configuration object.

NoGiven == [band |-> None, algorithm |-> None, scale |-> None, percentage_results |-> None]
NoCall == [op |-> "new", arg |-> <<>>, ret |-> "self", res |-> Ok(<<>>), n |-> 0]
Called(op, arg) == [op |-> op, arg |-> arg, ret |-> "self", res |-> Ok(<<>>), n |-> 0]

Target == IF obj = "slope" THEN slope ELSE tri
SetTarget(v) ==
    IF obj = "slope" THEN slope' = v /\ tri' = tri ELSE tri' = v /\ slope' = slope

OptInit ==
    /\ obj \in {"slope", "tri"}
    /\ major_is_3 \in BOOLEAN
    /\ minor_ge_3 \in BOOLEAN
    /\ slope = SlopeOptions_new
    /\ tri = TriOptions_new
    /\ given = NoGiven
    /\ last = NoCall

\* proc.with_input_band(n.try_into().unwrap()): the conversion comes first,
\* and the mutator is reached only with a NonZeroUsize.
CallWithInputBand ==
    \E n \in BandInputs :
        LET nz == NonZeroUsize_try_from(n) IN
        /\ IF nz = None
           THEN /\ last' = [op |-> "try_into", arg |-> Some(n), ret |-> "result",
                            res |-> Err("TryFromIntError"), n |-> 0]
                /\ UNCHANGED <<slope, tri>>
           ELSE /\ SetTarget(with_input_band(Target, nz[1]))
                /\ last' = Called("with_input_band", Some(n))
        /\ given' = [given EXCEPT !.band = Some(n)]
        /\ UNCHANGED <<argVars, regVars, obj, major_is_3, minor_ge_3>>

CallWithComputeEdges ==
    \E b \in BOOLEAN :
        /\ SetTarget(with_compute_edges(Target, b))
        /\ last' = Called("with_compute_edges", Some(b))
        /\ UNCHANGED <<argVars, regVars, obj, major_is_3, minor_ge_3, given>>

CallWithOutputFormat ==
    \E f \in FormatValues :
        /\ SetTarget(with_output_format(Target, f))
        /\ last' = Called("with_output_format", Some(f))
        /\ UNCHANGED <<argVars, regVars, obj, major_is_3, minor_ge_3, given>>

\* proc.with_additional_options(src.parse()?)
CallWithAdditionalOptions ==
    \E src \in AdditionalSources :
        /\ Parse(src).ok
        /\ SetTarget(with_additional_options(Target, Parse(src).val))
        /\ last' = Called("with_additional_options", Some(src))
        /\ UNCHANGED <<argVars, regVars, obj, major_is_3, minor_ge_3, given>>

SlopeWithAlgorithm ==
    \E a \in DemSlopeAlg :
        /\ obj = "slope"
        /\ slope' = SlopeOptions_with_algorithm(slope, a)
        /\ given' = [given EXCEPT !.algorithm = Some(a)]
        /\ last' = Called("with_algorithm", Some(a))
        /\ UNCHANGED <<argVars, regVars, obj, major_is_3, minor_ge_3, tri>>

SlopeWithScale ==
    \E x \in ScaleValues :
        /\ obj = "slope"
        /\ slope' = SlopeOptions_with_scale(slope, x)
        /\ given' = [given EXCEPT !.scale = Some(x)]
        /\ last' = Called("with_scale", Some(x))
        /\ UNCHANGED <<argVars, regVars, obj, major_is_3, minor_ge_3, tri>>

SlopeWithPercentageResults ==
    \E b \in BOOLEAN :
        /\ obj = "slope"
        /\ slope' = SlopeOptions_with_percentage_results(slope, b)
        /\ given' = [given EXCEPT !.percentage_results = Some(b)]
        /\ last' = Called("with_percentage_results", Some(b))
        /\ UNCHANGED <<argVars, regVars, obj, major_is_3, minor_ge_3, tri>>

TriWithAlgorithm ==
    \E a \in DemTriAlg(Gate(major_is_3, minor_ge_3)) :
        /\ obj = "tri"
        /\ tri' = TriOptions_with_algorithm(tri, a)
        /\ last' = Called("with_algorithm", Some(a))
        /\ UNCHANGED <<argVars, regVars, obj, major_is_3, minor_ge_3, slope, given>>

Compiles == IF last.op = "to_options_list" THEN last.n + 1 ELSE 1

SlopeToOptionsList ==
    /\ obj = "slope"
    /\ Compiles <= MaxCompiles
    /\ slope' = SlopeOptions_after_to_options_list(slope)
    /\ last' = [op |-> "to_options_list", arg |-> <<>>, ret |-> "result",
                res |-> SlopeOptions_to_options_list(slope), n |-> Compiles]
    /\ UNCHANGED <<argVars, regVars, obj, major_is_3, minor_ge_3, tri, given>>

TriToOptionsList ==
    /\ obj = "tri"
    /\ Compiles <= MaxCompiles
    /\ tri' = TriOptions_after_to_options_list(tri)
    /\ last' = [op |-> "to_options_list", arg |-> <<>>, ret |-> "result",
                res |-> TriOptions_to_options_list(tri, Gate(major_is_3, minor_ge_3)),
                n |-> Compiles]
    /\ UNCHANGED <<argVars, regVars, obj, major_is_3, minor_ge_3, slope, given>>

----------------------------------------------------------------------------
\* An argument list on its own: built by append and merge, then rendered and
\* parsed back.

Chars == {"a", SPACE, QUOTE}
Tokens == UNION {[1..n -> Chars] : n \in 0..MaxTokLen}

ArgInit ==
    /\ list = <<>>
    /\ other = <<>>
    /\ rt = [op |-> "new", res |-> Ok(<<>>)]

ListAppend ==
    \E tok \in Tokens :
        LET r == add_string(Ok(list), tok) IN
        /\ Len(list) < MaxListLen
        /\ list' = IF r.ok THEN r.val ELSE list
        /\ rt' = [op |-> "append", res |-> r]
        /\ UNCHANGED <<optVars, regVars, other>>

OtherAppend ==
    \E tok \in Tokens :
        LET r == add_string(Ok(other), tok) IN
        /\ Len(other) < MaxListLen
        /\ other' = IF r.ok THEN r.val ELSE other
        /\ rt' = [op |-> "append", res |-> r]
        /\ UNCHANGED <<optVars, regVars, list>>

ListMerge ==
    /\ Len(list) + Len(other) <= MaxListLen
    /\ list' = extend(Ok(list), other).val
    /\ rt' = [op |-> "merge", res |-> extend(Ok(list), other)]
    /\ UNCHANGED <<optVars, regVars, other>>

RoundTrip ==
    /\ rt' = [op |-> "round_trip", res |-> Parse(Render(list))]
    /\ UNCHANGED <<optVars, regVars, list, other>>

----------------------------------------------------------------------------
\* register_drivers, called from several threads.

Threads == 1..NThreads

\* register_drivers without its flag test.
needs_register_always(registered) == TRUE

\* if ! registered_drivers
needs_register(registered) == ~registered

\* LOCK.lock() returns once no thread holds the mutex.
lock_free(holder) == holder = 0

RegInit ==
    /\ pc = [t \in Threads |-> "idle"]
    /\ LOCK = 0
    /\ registered_drivers = FALSE
    /\ nRegister = 0
    /\ nRegistered = 0
    /\ calls = [t \in Threads |-> 0]

\* A thread enters register_drivers and reaches LOCK.lock().
Call(t) ==
    /\ pc[t] = "idle"
    /\ calls[t] < MaxCalls
    /\ pc' = [pc EXCEPT ![t] = "lock"]
    /\ UNCHANGED <<optVars, argVars, LOCK, registered_drivers, nRegister, nRegistered, calls>>

\* let _g = LOCK.lock();
Acquire(t) ==
    /\ pc[t] = "lock"
    /\ lock_free(LOCK)
    /\ LOCK' = t
    /\ pc' = [pc EXCEPT ![t] = "check"]
    /\ UNCHANGED <<optVars, argVars, registered_drivers, nRegister, nRegistered, calls>>

\* if ! registered_drivers { ... }
Check(t) ==
    /\ pc[t] = "check"
    /\ pc' = [pc EXCEPT ![t] = IF needs_register(registered_drivers)
                                 THEN "register" ELSE "unlock"]
    /\ UNCHANGED <<optVars, argVars, LOCK, registered_drivers, nRegister, nRegistered, calls>>

\* GDALAllRegister() is entered ...
RegisterBegin(t) ==
    /\ pc[t] = "register"
    /\ nRegister' = nRegister + 1
    /\ pc' = [pc EXCEPT ![t] = "registering"]
    /\ UNCHANGED <<optVars, argVars, LOCK, registered_drivers, nRegistered, calls>>

\* ... and returns.
RegisterEnd(t) ==
    /\ pc[t] = "registering"
    /\ nRegistered' = nRegistered + 1
    /\ pc' = [pc EXCEPT ![t] = "set"]
    /\ UNCHANGED <<optVars, argVars, LOCK, registered_drivers, nRegister, calls>>

\* registered_drivers = true;
SetFlag(t) ==
    /\ pc[t] = "set"
    /\ registered_drivers' = TRUE
    /\ pc' = [pc EXCEPT ![t] = "unlock"]
    /\ UNCHANGED <<optVars, argVars, LOCK, nRegister, nRegistered, calls>>

\* The guard _g is dropped at the end of the block and the call returns.
Return(t) ==
    /\ pc[t] = "unlock"
    /\ LOCK' = 0
    /\ pc' = [pc EXCEPT ![t] = "idle"]
    /\ calls' = [calls EXCEPT ![t] = calls[t] + 1]
    /\ UNCHANGED <<optVars, argVars, registered_drivers, nRegister, nRegistered>>

----------------------------------------------------------------------------
\* The specifications.

\* A program building and compiling one configuration object.
Init == OptInit /\ ArgInit /\ RegInit

Next ==
    \/ CallWithInputBand
    \/ CallWithComputeEdges
    \/ CallWithOutputFormat
    \/ CallWithAdditionalOptions
    \/ SlopeWithAlgorithm
    \/ SlopeWithScale
    \/ SlopeWithPercentageResults
    \/ TriWithAlgorithm
    \/ SlopeToOptionsList
    \/ TriToOptionsList

Spec == Init /\ [][Next]_vars

\* A program building an argument list by hand.
OptIdle ==
    /\ obj = "slope"
    /\ major_is_3 = TRUE
    /\ minor_ge_3 = TRUE
    /\ slope = SlopeOptions_new
    /\ tri = TriOptions_new
    /\ given = NoGiven
    /\ last = NoCall

ArgsInit == OptIdle /\ ArgInit /\ RegInit

ArgsNext ==
    \/ ListAppend
    \/ OtherAppend
    \/ ListMerge
    \/ RoundTrip

SpecArgs == ArgsInit /\ [][ArgsNext]_vars

\* Threads racing through register_drivers.
RegsInit == OptIdle /\ ArgInit /\ RegInit

RegsNext ==
    \/ \E t \in Threads : Call(t)
    \/ \E t \in Threads : Acquire(t)
    \/ \E t \in Threads : Check(t)
    \/ \E t \in Threads : RegisterBegin(t)
    \/ \E t \in Threads : RegisterEnd(t)
    \/ \E t \in Threads : SetFlag(t)
    \/ \E t \in Threads : Return(t)

SpecReg == RegsInit /\ [][RegsNext]_vars

----------------------------------------------------------------------------
\* Properties.

Count(tok, l) == Cardinality({i \in 1..Len(l) : l[i] = tok})

\* The last call was to_options_list, on the slope / the TRI configuration.
CompiledSlope == obj = "slope" /\ last.op = "to_options_list"
CompiledTri == obj = "tri" /\ last.op = "to_options_list"
Compiled == last.op = "to_options_list"

\* The tokens the caller handed over verbatim.
CallerTokens(self) ==
    (IF self.output_format # None THEN <<self.output_format[1]>> ELSE <<>>)
    \o self.additional_options

\* The groups of the slope argument list, each empty when its field is unset.
GroupEdges(self) == IF self.compute_edges THEN <<TokComputeEdges>> ELSE <<>>
GroupBand(self) ==
    IF self.input_band # None THEN <<TokB, DecStr(self.input_band[1])>> ELSE <<>>
GroupFormat(self) ==
    IF self.output_format # None THEN <<TokOf, self.output_format[1]>> ELSE <<>>
GroupAlg(self) ==
    IF self.algorithm = None THEN <<>>
    ELSE IF self.algorithm[1] = "Horn" THEN <<TokAlg, StrHorn>>
    ELSE <<TokAlg, StrZevenbergenThorne>>
GroupScale(self) ==
    IF self.scale # None THEN <<TokS, f64_to_string(self.scale[1])>> ELSE <<>>
GroupP(self) == IF self.percentage_results = Some(TRUE) THEN <<TokP>> ELSE <<>>

SlopeGroups(self) ==
    GroupEdges(self) \o GroupBand(self) \o GroupFormat(self)
    \o self.additional_options
    \o GroupAlg(self) \o GroupScale(self) \o GroupP(self)

FormatFails(self) ==
    self.output_format # None /\ ~Encodable(self.output_format[1])

\* C1 as stated: for every SlopeOptions value to_options_list returns the
\* groups -compute_edges, -b <band>, -of <format>, the additional options,
\* -alg <algorithm>, -s <scale>, -p, in this order, each only when its field
\* is set.
C1_EveryValueCompilesToGroups ==
    CompiledSlope => last.res = Ok(SlopeGroups(slope))

\* C1, amended: to_options_list returns exactly these groups in this order
\* whenever it returns a list; it returns an error and no list exactly when
\* appending the output format fails.
C1_GroupsInOrderUnlessAppendFails ==
    CompiledSlope =>
        last.res = IF FormatFails(slope) THEN Err("EncodingError")
                   ELSE Ok(SlopeGroups(slope))

\* The slope test's configuration, compiled to the string the test expects.
C1_Witness ==
    /\ CompiledSlope
    /\ last.res.ok
    /\ slope.percentage_results = Some(TRUE)
    /\ Render(last.res.val) = ExpectedSlope

\* C2 as stated: with the gate closed and an algorithm set, the TRI call
\* succeeds and returns exactly the common options; the -alg pair follows the
\* common options if and only if an algorithm is set and the gate is open.
C2_GateClosedAlwaysSucceeds ==
    CompiledTri =>
        LET c == store_common_options_to(tri, Ok(<<>>))
            g == Gate(major_is_3, minor_ge_3)
        IN  /\ (tri.algorithm # None /\ ~g) => (last.res.ok /\ last.res.val = c.val)
            /\ last.res.ok =>
                 IF tri.algorithm # None /\ g
                 THEN last.res.val = c.val \o <<TokAlg, DemTriAlg_to_gdal_option(tri.algorithm[1])>>
                 ELSE last.res.val = c.val

\* C2, amended: the TRI call returns what the common options step returns,
\* its token list or its error, followed by the -alg pair if and only if an
\* algorithm is set and the gate is open; a set algorithm under a closed gate
\* adds neither a token nor an error.
C2_AlgPairIffGateOpen ==
    CompiledTri =>
        LET c == store_common_options_to(tri, Ok(<<>>))
            g == Gate(major_is_3, minor_ge_3)
        IN  last.res = IF ~c.ok THEN c
                       ELSE IF tri.algorithm # None /\ g
                       THEN Ok(c.val \o <<TokAlg, IF tri.algorithm[1] = "Wilson"
                                                  THEN StrWilson ELSE StrRiley>>)
                       ELSE c

\* The TRI test's configuration under a closed gate: the expected string
\* without its -alg Wilson suffix.
C2_Witness ==
    /\ CompiledTri
    /\ ~Gate(major_is_3, minor_ge_3)
    /\ tri.algorithm = Some("Wilson")
    /\ last.res.ok
    /\ Render(last.res.val) \o <<SPACE>> \o TokAlg \o <<SPACE>> \o StrWilson = ExpectedTri

\* C3 as stated: with compute_edges false the compiled list holds no
\* -compute_edges token; with compute_edges true it holds the token exactly
\* once, as its first token.
C3_NoEdgesTokenUnlessSet ==
    (Compiled /\ last.res.ok) =>
        IF Target.compute_edges
        THEN /\ Count(TokComputeEdges, last.res.val) = 1
             /\ last.res.val[1] = TokComputeEdges
        ELSE Count(TokComputeEdges, last.res.val) = 0

\* C3, amended: apart from the tokens the caller supplied verbatim (the
\* output format value and the additional options), the compiled list holds no
\* -compute_edges token when compute_edges is false and exactly one, its first
\* token, when it is true.
C3_EdgesTokenOnlyFromFlagOrCaller ==
    (Compiled /\ last.res.ok) =>
        /\ Count(TokComputeEdges, last.res.val)
             = (IF Target.compute_edges THEN 1 ELSE 0)
               + Count(TokComputeEdges, CallerTokens(Target))
        /\ Target.compute_edges => last.res.val[1] = TokComputeEdges
        /\ (~Target.compute_edges /\ last.res.val # <<>> /\ Target.input_band # None)
              => last.res.val[1] = TokB

C3_Witness ==
    /\ CompiledSlope
    /\ last.res.ok
    /\ slope.compute_edges
    /\ slope.algorithm # None
    /\ last.res.val[1] = TokComputeEdges
    /\ Count(TokComputeEdges, last.res.val) = 1

\* C4 as stated: the compiled slope list holds -p if and only if
\* percentage_results is Some(true); for Some(false) and for None it holds no
\* -p token and is the same list.
C4_NoPTokenUnlessTrue ==
    (CompiledSlope /\ last.res.ok) =>
        /\ (slope.percentage_results = Some(TRUE)) <=> (Count(TokP, last.res.val) > 0)
        /\ slope.percentage_results = Some(FALSE) =>
              last.res = SlopeOptions_to_options_list([slope EXCEPT !.percentage_results = None])

\* C4, amended: apart from the tokens the caller supplied verbatim (the
\* output format value and the additional options), the compiled slope list
\* holds -p, once and as its last token, if and only if percentage_results is
\* Some(true); Some(false) and None compile to the same result.
C4_PTokenOnlyFromTrueOrCaller ==
    CompiledSlope =>
        /\ last.res.ok =>
             /\ Count(TokP, last.res.val)
                  = (IF slope.percentage_results = Some(TRUE) THEN 1 ELSE 0)
                    + Count(TokP, CallerTokens(slope))
             /\ slope.percentage_results = Some(TRUE)
                  => last.res.val[Len(last.res.val)] = TokP
        /\ slope.percentage_results = Some(FALSE) =>
              last.res = SlopeOptions_to_options_list([slope EXCEPT !.percentage_results = None])

C4_Witness ==
    /\ CompiledSlope
    /\ last.res.ok
    /\ slope.percentage_results = Some(FALSE)
    /\ slope.scale # None
    /\ Count(TokP, last.res.val) = 0

\* Where the band pair starts in a compiled list.
BandAt(self) == IF self.compute_edges THEN 2 ELSE 1

C6_RoundTrip ==
    rt.op = "round_trip" => rt.res = Ok(list)

\* The round trip of a list none of whose tokens is empty.
RoundTripOfNonEmptyTokens ==
    (rt.op = "round_trip" /\ \A i \in 1..Len(list) : list[i] # <<>>)
        => rt.res = Ok(list)

Inside == {"check", "register", "registering", "set", "unlock"}

C8_Inv ==
    /\ nRegister <= 1
    /\ nRegistered <= nRegister
    /\ \A t \in Threads : pc[t] \in Inside => LOCK = t
    /\ \A t \in Threads : (pc[t] = "unlock" \/ calls[t] > 0) => nRegistered = 1
    /\ registered_drivers => nRegistered = 1

\* C8: under every interleaving GDALAllRegister is called at most once and has
\* completed once by the time any call of register_drivers returns; a thread
\* reads or writes registered_drivers only while it holds the lock; the flag
\* never goes back from true to false.
C8_RegisteredOnce ==
    /\ []C8_Inv
    /\ [][registered_drivers => registered_drivers']_vars

\* Two threads have returned from register_drivers, a third is inside.
C8_Witness ==
    /\ \E t, u \in Threads : t # u /\ calls[t] > 0 /\ calls[u] > 0
    /\ \E t \in Threads : pc[t] = "unlock"
    /\ nRegister = 1

\* C9: each mutator of the source sets its own field to Some(argument),
\* leaves every other field unchanged, and returns the configuration.
C9_MutatorsSetOneField ==
    [][/\ (obj = "slope" /\ last'.op = "with_algorithm") =>
            /\ slope' = [slope EXCEPT !.algorithm = last'.arg]
            /\ last'.ret = "self" /\ tri' = tri
       /\ last'.op = "with_scale" =>
            /\ slope' = [slope EXCEPT !.scale = last'.arg]
            /\ last'.ret = "self" /\ tri' = tri
       /\ last'.op = "with_percentage_results" =>
            /\ slope' = [slope EXCEPT !.percentage_results = last'.arg]
            /\ last'.ret = "self" /\ tri' = tri
       /\ (obj = "tri" /\ last'.op = "with_algorithm") =>
            /\ tri' = [tri EXCEPT !.algorithm = last'.arg]
            /\ last'.ret = "self" /\ slope' = slope]_vars

\* with_scale called on a configuration whose other fields are set.
C9_Witness ==
    /\ last.op = "with_scale"
    /\ slope.scale = last.arg
    /\ slope.algorithm # None
    /\ slope.percentage_results = Some(TRUE)
    /\ slope.input_band # None

\* The part of a compiled slope list that follows the common options.
OpPart(self, out) ==
    SubSeq(out, Len(store_common_options_to(self, Ok(<<>>)).val) + 1, Len(out))

C10_State ==
    obj = "slope" =>
        /\ slope.algorithm = given.algorithm
        /\ slope.scale = given.scale
        /\ slope.percentage_results = given.percentage_results
        /\ (CompiledSlope /\ last.res.ok) =>
              LET part == OpPart(slope, last.res.val) IN
              /\ Count(TokAlg, part) <= 1
              /\ Count(TokS, part) <= 1
              /\ Count(TokP, part) <= 1
              /\ part = GroupAlg(given) \o GroupScale(given) \o GroupP(given)
              /\ given.percentage_results = Some(FALSE) => Count(TokP, part) = 0

C10_Step ==
    /\ slope.algorithm # None => slope'.algorithm # None
    /\ slope.scale # None => slope'.scale # None
    /\ slope.percentage_results # None => slope'.percentage_results # None
    /\ (slope.percentage_results = Some(TRUE) /\ last'.op = "with_percentage_results"
          /\ last'.arg = Some(FALSE) /\ ~FormatFails(slope)) =>
            Count(TokP, OpPart(slope', SlopeOptions_to_options_list(slope').val)) = 0

\* C10: after any sequence of mutator calls the slope list depends only on the
\* last value given to each field: its operation-specific part holds at most
\* one -alg pair, one -s pair and one -p, with the last algorithm and scale
\* given; true then false for the percentage switch leaves no -p; a field once
\* set is never unset again.
C10_LastValueWins ==
    /\ []C10_State
    /\ [][C10_Step]_vars

\* Algorithm and scale set, the percentage switch last set to false, compiled.
C10_Witness ==
    /\ CompiledSlope
    /\ last.res.ok
    /\ given.algorithm = Some("Horn")
    /\ given.scale # None
    /\ given.percentage_results = Some(FALSE)
    /\ OpPart(slope, last.res.val) = <<TokAlg, StrHorn, TokS, f64_to_string(given.scale[1])>>

====
